---- MODULE Spec2Model ----
(***************************************************************************)
(* A model of src/base.py, the base class _BaseIOHMM of an input-output    *)
(* hidden Markov model: its constructor, the EM loop of fit, the scaled    *)
(* forward and backward passes, the posterior statistics and the builder   *)
(* of the per-time-step transition tensor.                                 *)
(*                                                                         *)
(* Spec     the constructor followed by one call of fit, step by step.     *)
(*          fit calls _compute_transmat, _do_forward_pass,                  *)
(*          _do_backward_pass and _compute_sufficient_static with argument  *)
(*          lists the base class's own definitions do not accept, and       *)
(*          _compute_likelihood, which the base class does not define.      *)
(*          `overrides' is the class fit is run on: FALSE is the base       *)
(*          class itself (the first call raises TypeError), TRUE a          *)
(*          subclass whose methods accept fit's calls and have the base     *)
(*          bodies' effects on the instance.  The numbers the E-step        *)
(*          computes are abstracted there to what fit's control and data    *)
(*          flow depends on.                                                *)
(* SpecPass the numeric methods called directly, with exact arithmetic.    *)
(***************************************************************************)
EXTENDS Integers, Sequences, FiniteSets, TLC

\* ------------------------------------------------------------- bounds
MaxSeqs == 2      \* sequences in the corpus
MaxT == 2         \* time steps of one sequence
MaxIter == 3      \* n_iter
MaxComp == 2      \* n_components handed to the constructor

\* ---------------------------------------------------------- arithmetic
(* A float64 value is modelled exactly: a non-negative rational <<n, d>>   *)
(* in lowest terms, +inf as <<1, 0>> and NaN as <<0, 0>>.  numpy's float   *)
(* division by zero gives inf (or NaN for 0/0) with a warning, not an      *)
(* exception.  Rounding is not modelled.                                   *)
RECURSIVE GCD(_, _)
GCD(a, b) == IF b = 0 THEN a ELSE GCD(b, a % b)

Inf == <<1, 0>>
NaN == <<0, 0>>
Zero == <<0, 1>>
One == <<1, 1>>
Half == <<1, 2>>

IsNaN(x) == x = NaN
IsInf(x) == x = Inf
IsFinite(x) == x[2] # 0

Norm(n, d) == LET g == GCD(n, d) IN IF g = 0 THEN NaN ELSE <<n \div g, d \div g>>

RAdd(x, y) ==
    IF IsNaN(x) \/ IsNaN(y) THEN NaN
    ELSE IF IsInf(x) \/ IsInf(y) THEN Inf
    ELSE Norm(x[1] * y[2] + y[1] * x[2], x[2] * y[2])

RMul(x, y) ==
    IF IsNaN(x) \/ IsNaN(y) THEN NaN
    ELSE IF IsInf(x) \/ IsInf(y)
         THEN (IF x = Zero \/ y = Zero THEN NaN ELSE Inf)
    ELSE Norm(x[1] * y[1], x[2] * y[2])

RDiv(x, y) ==
    IF IsNaN(x) \/ IsNaN(y) THEN NaN
    ELSE IF IsInf(y) THEN (IF IsInf(x) THEN NaN ELSE Zero)
    ELSE IF IsInf(x) THEN Inf
    ELSE Norm(x[1] * y[2], x[2] * y[1])

\* np.sum of a vector indexed 0..n-1
RECURSIVE SumTo(_, _)
SumTo(v, n) == IF n = 0 THEN Zero ELSE RAdd(SumTo(v, n - 1), v[n - 1])

\* --------------------------------------------------------------- state
VARIABLES
    pc,               \* where the constructor / fit stands
    err,              \* the exception that ended it, "" if none
    overrides,        \* the class: FALSE the base class, TRUE a subclass
    n_components, ins, startprob, n_iter,   \* self.* set by __init__
    trans_weight_mat, \* self.trans_weight_mat, as a version token
    logprob,          \* fit's local list
    lpr,              \* fit's local, Unbound before the first forward pass
    nit,              \* iterations of `for i in range(self.n_iter)' entered
    i,                \* fit's local i, shared by both loops
    k,                \* position of `for i in range(len(obs))'
    scaling_factors,  \* self.scaling_factors: who wrote it, <<seq, iteration, T>>
    posts,            \* self.trans_posts / self.state_posts: the sequences they hold
    twm_init,         \* history: trans_weight_mat right after _init
    twm_iter,         \* history: trans_weight_mat when the iteration began
    msteps,           \* history: calls of _do_mstep
    estep_done,       \* history: sequences whose statistics this iteration computed
    sf_read,          \* history: what the last backward pass read
    tested,           \* history: what the last convergence check did
    \* the numeric methods called directly (SpecPass)
    transmat,         \* argument: transmat[t][i][j]
    framelogprob,     \* argument: framelogprob[t][i], a likelihood
    factors,          \* self.scaling_factors, as numbers
    fwdlattice, likelihood,     \* returned by _do_forward_pass
    bwdlattice,       \* returned by _do_backward_pass
    trans_posts, state_posts,   \* self.trans_posts, self.state_posts
    ret               \* what _compute_transmat returned or raised

fitVars == <<pc, err, overrides, n_components, ins, startprob, n_iter,
             trans_weight_mat, logprob, lpr, nit, i, k, scaling_factors, posts,
             twm_init, twm_iter, msteps, estep_done, sf_read, tested>>

passVars == <<transmat, framelogprob, factors, fwdlattice, likelihood,
              bwdlattice, trans_posts, state_posts, ret>>

vars == <<fitVars, passVars>>

\* ------------------------------------------------------------- domains
(* Log-likelihoods are counted in hundredths, so that the default          *)
(* thresh=1e-2 of __init__ is 1.                                           *)
thresh == 1
LprVals == {0, 1, 2}
\* weight tensors, as tokens; "tile" is the constructor's uniform tile
WVals == {"tile", "w1"}
None == "None"
\* a local of fit that no statement has bound yet
Unbound == 0 - 1

\* a corpus is the sequence of its sequences' lengths
RECURSIVE Corpora(_)
Corpora(n) ==
    IF n = 0 THEN {<<>>}
    ELSE Corpora(n - 1) \cup
         {Append(c, T) : c \in {c \in Corpora(n - 1) : Len(c) = n - 1}, T \in 1..MaxT}

\* a numpy vector, indexed from 0
Vec(seq) == [j \in 0..(Len(seq) - 1) |-> seq[j + 1]]
Size(v) == Cardinality(DOMAIN v)

StartprobVals == {Vec(<<Half, Half>>), Vec(<<One, One>>)}

\* ---------------------------------------------------------------- Init
Init ==
    /\ pc = "new"
    /\ err = ""
    /\ overrides = FALSE
    /\ n_components = None
    /\ ins = None
    /\ startprob = None
    /\ n_iter = None
    /\ trans_weight_mat = None
    /\ logprob = <<>>
    /\ lpr = Unbound
    /\ nit = 0
    /\ i = Unbound
    /\ k = 0
    /\ scaling_factors = <<>>
    /\ posts = {}
    /\ twm_init = None
    /\ twm_iter = None
    /\ msteps = 0
    /\ estep_done = {}
    /\ sf_read = <<>>
    /\ tested = None
    /\ transmat = <<>>
    /\ framelogprob = <<>>
    /\ factors = <<>>
    /\ fwdlattice = <<>>
    /\ likelihood = NaN
    /\ bwdlattice = <<>>
    /\ trans_posts = <<>>
    /\ state_posts = <<>>
    /\ ret = None

Raise(e) == pc' = "raised" /\ err' = e

\* __init__: every field is stored as given; ins[0] raises on an empty corpus
New ==
    /\ pc = "new"
    /\ \E n \in 0..MaxComp, c \in Corpora(MaxSeqs), sp \in StartprobVals,
          ni \in 0..MaxIter, cls \in BOOLEAN :
          /\ overrides' = cls
          /\ n_components' = n
          /\ ins' = c
          /\ n_iter' = ni
          /\ startprob' = sp
          /\ IF Len(c) = 0
             THEN Raise("IndexError") /\ UNCHANGED trans_weight_mat
             ELSE pc' = "constructed" /\ err' = "" /\ trans_weight_mat' = "tile"
    /\ UNCHANGED <<logprob, lpr, nit, i, k, scaling_factors, posts, twm_init,
                   twm_iter, msteps, estep_done, sf_read, tested>>
    /\ UNCHANGED passVars

\* fit, lines 99-100: self._init(obs, self.init_params), which the class may
\* define to set the weights (the base class's leaves them: w = "tile"), and
\* logprob = [].  obs is parallel to self.ins.
FitInit ==
    /\ pc = "constructed"
    /\ \E w \in WVals :
          /\ trans_weight_mat' = w
          /\ twm_init' = w
    /\ logprob' = <<>>
    /\ pc' = "loop"
    /\ UNCHANGED <<err, overrides, n_components, ins, startprob, n_iter, lpr, nit,
                   i, k, scaling_factors, posts, twm_iter, msteps, estep_done,
                   sf_read, tested>>
    /\ UNCHANGED passVars

\* range(self.n_iter) has a next element after `done' of them
RangeHasNextOff(done, n) == done <= n
RangeHasNext(done, n) == done < n

\* line 101 and 103: the outer loop's header, stats = ...
OuterLoop ==
    /\ pc = "loop"
    /\ IF RangeHasNext(nit, n_iter)
       THEN /\ i' = nit
            /\ nit' = nit + 1
            /\ k' = 0
            /\ estep_done' = {}
            /\ twm_iter' = trans_weight_mat
            /\ tested' = None
            /\ pc' = "seq"
       ELSE /\ pc' = "done"
            /\ UNCHANGED <<i, nit, k, estep_done, twm_iter, tested>>
    /\ UNCHANGED <<err, overrides, n_components, ins, startprob, n_iter,
                   trans_weight_mat, logprob, lpr, scaling_factors, posts,
                   twm_init, msteps, sf_read>>
    /\ UNCHANGED passVars

\* line 105-107: the inner loop's header rebinds the same local i; obs is
\* parallel to self.ins, so len(obs) is Len(ins)
SeqLoop ==
    /\ pc = "seq"
    /\ IF k < Len(ins)
       THEN i' = k /\ pc' = "transmat"
       ELSE i' = i /\ pc' = "append"
    /\ UNCHANGED <<err, overrides, n_components, ins, startprob, n_iter,
                   trans_weight_mat, logprob, lpr, nit, k, scaling_factors, posts,
                   twm_init, twm_iter, msteps, estep_done, sf_read, tested>>
    /\ UNCHANGED passVars

\* line 109: the base class's _compute_transmat raises at its first statement
\* (compute_transmat below); a subclass's returns the tensor of sequence i
ComputeTransmat ==
    /\ pc = "transmat"
    /\ IF overrides THEN pc' = "likelihood" /\ err' = err
                    ELSE Raise("TypeError")
    /\ UNCHANGED <<overrides, n_components, ins, startprob, n_iter,
                   trans_weight_mat, logprob, lpr, nit, i, k, scaling_factors,
                   posts, twm_init, twm_iter, msteps, estep_done, sf_read, tested>>
    /\ UNCHANGED passVars

\* line 110: the subclass's likelihood matrix
ComputeLikelihood ==
    /\ pc = "likelihood"
    /\ pc' = "forward"
    /\ UNCHANGED <<err, overrides, n_components, ins, startprob, n_iter,
                   trans_weight_mat, logprob, lpr, nit, i, k, scaling_factors,
                   posts, twm_init, twm_iter, msteps, estep_done, sf_read, tested>>
    /\ UNCHANGED passVars

\* what the forward pass of sequence s leaves in self.scaling_factors (line 187)
StoredScalingStale(old, s) == old
StoredScaling(old, s) == <<s, nit - 1, ins[s + 1]>>

\* line 112: lpr and fwdlattice of sequence i; self.scaling_factors is rewritten
ForwardPass ==
    /\ pc = "forward"
    /\ \E l \in LprVals : lpr' = l
    /\ scaling_factors' = StoredScaling(scaling_factors, i)
    /\ pc' = "backward"
    /\ UNCHANGED <<err, overrides, n_components, ins, startprob, n_iter,
                   trans_weight_mat, logprob, nit, i, k, posts, twm_init, twm_iter,
                   msteps, estep_done, sf_read, tested>>
    /\ UNCHANGED passVars

\* line 113: the backward pass reads self.scaling_factors (lines 194, 200)
BackwardPass ==
    /\ pc = "backward"
    /\ sf_read' = scaling_factors
    /\ pc' = "statistic"
    /\ UNCHANGED <<err, overrides, n_components, ins, startprob, n_iter,
                   trans_weight_mat, logprob, lpr, nit, i, k, scaling_factors,
                   posts, twm_init, twm_iter, msteps, estep_done, tested>>
    /\ UNCHANGED passVars

\* the statistics step followed at once by an M-step
SufficientStaticThenMStep ==
    /\ pc = "statistic"
    /\ posts' = {i}
    /\ estep_done' = estep_done \cup {i}
    /\ k' = k + 1
    /\ \E w \in WVals : trans_weight_mat' = w
    /\ msteps' = msteps + 1
    /\ pc' = "seq"
    /\ UNCHANGED <<err, overrides, n_components, ins, startprob, n_iter,
                   logprob, lpr, nit, i, scaling_factors,
                   twm_init, twm_iter, sf_read, tested>>
    /\ UNCHANGED passVars

\* line 116-117 with 157 and 165: self.trans_posts and self.state_posts are
\* assigned the posteriors of sequence i; `stats' is not touched
SufficientStatic ==
    /\ pc = "statistic"
    /\ posts' = {i}
    /\ estep_done' = estep_done \cup {i}
    /\ k' = k + 1
    /\ pc' = "seq"
    /\ UNCHANGED <<err, overrides, n_components, ins, startprob, n_iter,
                   trans_weight_mat, logprob, lpr, nit, i, scaling_factors,
                   twm_init, twm_iter, msteps, sf_read, tested>>
    /\ UNCHANGED passVars

\* line 118: logprob.append(lpr); lpr is unbound only if no sequence was run
AppendLogprob ==
    /\ pc = "append"
    /\ IF lpr = Unbound
       THEN Raise("UnboundLocalError") /\ UNCHANGED logprob
       ELSE logprob' = Append(logprob, lpr) /\ pc' = "check" /\ err' = err
    /\ UNCHANGED <<overrides, n_components, ins, startprob, n_iter,
                   trans_weight_mat, lpr, nit, i, k, scaling_factors, posts,
                   twm_init, twm_iter, msteps, estep_done, sf_read, tested>>
    /\ UNCHANGED passVars

\* logprob[-1] - logprob[-2] < self.thresh
Converged(lp) == lp[Len(lp)] - lp[Len(lp) - 1] < thresh

\* line 119-120: `i' is by now the inner loop's last index
ConvergenceCheck ==
    /\ pc = "check"
    /\ IF i > 0
       THEN IF Len(logprob) < 2
            THEN Raise("IndexError") /\ tested' = "IndexError"
            ELSE /\ tested' = "evaluated"
                 /\ pc' = (IF Converged(logprob) THEN "done" ELSE "mstep")
                 /\ err' = err
       ELSE tested' = "skipped" /\ pc' = "mstep" /\ err' = err
    /\ UNCHANGED <<overrides, n_components, ins, startprob, n_iter,
                   trans_weight_mat, logprob, lpr, nit, i, k, scaling_factors,
                   posts, twm_init, twm_iter, msteps, estep_done, sf_read>>
    /\ UNCHANGED passVars

\* line 123: self._do_mstep(), which the class may define to set the weights
\* (the base class's leaves them); it is handed nothing, and finds on the
\* instance what the last statistics step stored
MStep ==
    /\ pc = "mstep"
    /\ \E w \in WVals : trans_weight_mat' = w
    /\ msteps' = msteps + 1
    /\ pc' = "loop"
    /\ UNCHANGED <<err, overrides, n_components, ins, startprob, n_iter, logprob,
                   lpr, nit, i, k, scaling_factors, posts, twm_init, twm_iter,
                   estep_done, sf_read, tested>>
    /\ UNCHANGED passVars

Next ==
    \/ New \/ FitInit \/ OuterLoop \/ SeqLoop \/ ComputeTransmat
    \/ ComputeLikelihood \/ ForwardPass \/ BackwardPass \/ SufficientStatic
    \/ AppendLogprob \/ ConvergenceCheck \/ MStep

Spec == Init /\ [][Next]_vars

\* ------------------------------------------------------------- claims
InFit == pc \in {"loop", "seq", "transmat", "likelihood", "forward", "backward",
                 "statistic", "append", "check", "mstep", "done"}
InIteration == pc \in {"seq", "transmat", "likelihood", "forward", "backward",
                       "statistic", "append", "check", "mstep"}
AllSeqs == 0..(Len(ins) - 1)

\* C1: with n_iter = 0 fit runs _init only: no iteration is entered, no E-step
\* and no M-step runs, and trans_weight_mat keeps the value _init left.
C1_NoIterations ==
    (pc # "new" /\ n_iter = 0 /\ (InFit \/ (pc = "raised" /\ Len(ins) > 0)))
        => /\ pc \in {"loop", "done"}
           /\ nit = 0
           /\ msteps = 0
           /\ estep_done = {}
           /\ scaling_factors = <<>>
           /\ trans_weight_mat = twm_init
C1_Witness ==
    pc = "done" /\ n_iter = 0 /\ Len(ins) = 1 /\ trans_weight_mat = "w1"

\* C2 (as claimed): at most n_iter iterations; the convergence test is skipped
\* in the first iteration and evaluated in every later one, whatever the size
\* of the corpus; and fit goes on to the M-step exactly when the test was
\* skipped or the difference is not below thresh.
C2_Claim ==
    /\ InFit => nit <= n_iter
    /\ tested # None =>
          /\ tested # "IndexError"
          /\ (tested = "evaluated") = (Len(logprob) >= 2)
    /\ pc = "mstep" => ~(Len(logprob) >= 2 /\ Converged(logprob))

\* C3 (as claimed): when the sequences of an iteration are through, the
\* statistics the model holds for the M-step cover every sequence of the corpus.
C3_Claim ==
    pc \in {"append", "check", "mstep"} => posts = AllSeqs

\* C4: while an iteration is in its E-step trans_weight_mat is the one the
\* iteration began with and the iteration has had no M-step; there is at most
\* one M-step per iteration, and it comes after every sequence's statistics.
C4_MStepBarrier ==
    /\ msteps <= nit
    /\ InIteration => trans_weight_mat = twm_iter /\ msteps = nit - 1
    /\ (pc = "loop" /\ nit > 0) => msteps = nit /\ estep_done = AllSeqs
C4_Witness ==
    pc = "loop" /\ msteps = 2 /\ trans_weight_mat # twm_iter

\* C7 (as claimed): a model with n_components <= 0, an empty corpus or a
\* startprob not summing to 1 fails in the constructor (with
\* InvalidConfiguration; stated here for an error of any name), so that no
\* such instance exists to reach fit.
ValidConfiguration ==
    /\ n_components > 0
    /\ Len(ins) > 0
    /\ SumTo(startprob, Size(startprob)) = One
C7_Claim ==
    (pc # "new" /\ ~ValidConfiguration)
        => pc = "raised" /\ nit = 0

\* C10: the scaling factors a backward pass reads are the ones the forward
\* pass of the same sequence wrote in the same iteration, of that sequence's
\* length.
C10_OwnScaling ==
    pc = "statistic" => sf_read = <<i, nit - 1, ins[i + 1]>>
C10_Witness ==
    /\ pc = "statistic" /\ i = 1 /\ ins[1] # ins[2]
    /\ sf_read = <<1, 0, ins[2]>>
\* ------------------------------------------------ the numeric methods
States == 0..(n_components - 1)
Steps(fr) == 0..(Size(fr) - 1)

\* np.dot(A.T, v[np.newaxis].T).flatten()
DotT(A, v) ==
    [a \in States |->
        SumTo([b \in States |-> RMul(A[b][a], v[b])], n_components)]
\* u * w, element by element
Times(u, w) == [a \in States |-> RMul(u[a], w[a])]
\* v * c
Scaled(v, c) == [a \in States |-> RMul(v[a], c)]
RowSum(v) == SumTo(v, n_components)

\* the index of transmat that the recursion of line 182 reads at step t
FwdMatIndex(t) == 0

(* Lines 177-184.  The row of fwdlattice at step t before it is rescaled,   *)
(* the factor 1 / np.sum(row), and the rescaled row.                        *)
RECURSIVE fwd_unscaled(_, _, _)
fwd_factor(tm, fr, t) == RDiv(One, RowSum(fwd_unscaled(tm, fr, t)))
fwd_row(tm, fr, t) == Scaled(fwd_unscaled(tm, fr, t), fwd_factor(tm, fr, t))
fwd_unscaled(tm, fr, t) ==
    IF t = 0
    THEN Times(DotT(tm[0], startprob), fr[0])
    ELSE Times(DotT(tm[FwdMatIndex(t)], fwd_row(tm, fr, t - 1)), fr[t])

RECURSIVE ProdTo(_, _)
ProdTo(v, n) == IF n = 0 THEN One ELSE RMul(ProdTo(v, n - 1), v[n - 1])

(* _do_forward_pass.  np.exp(-1 * np.sum(np.log(c))) is 1 / prod(c): 0 when *)
(* a factor is inf, NaN when one is NaN.  No statement tests a sum for 0.   *)
do_forward_pass(tm, fr) ==
    LET sf == [t \in Steps(fr) |-> fwd_factor(tm, fr, t)]
    IN  [likelihood |-> RDiv(One, ProdTo(sf, Size(fr))),
         fwdlattice |-> [t \in Steps(fr) |-> fwd_row(tm, fr, t)],
         scaling_factors |-> sf]

(* _do_backward_pass, lines 192-201, with self.scaling_factors = sf.        *)
(* range(T-2, -1, -1) is empty for T = 1.                                   *)
RECURSIVE bwd_row(_, _, _, _)
bwd_row(tm, fr, sf, t) ==
    LET T == Size(fr)
    IN  IF t = T - 1
        THEN Scaled([a \in States |-> One], sf[T - 1])
        ELSE LET nxt == bwd_row(tm, fr, sf, t + 1)
             IN  Scaled([a \in States |->
                           SumTo([b \in States |->
                                    RMul(RMul(tm[t][a][b], nxt[b]), fr[t + 1][b])],
                                 n_components)],
                        sf[t])
do_backward_pass(tm, fr, sf) == [t \in Steps(fr) |-> bwd_row(tm, fr, sf, t)]

\* _compute_sufficient_static, lines 146-157
compute_trans_posts(tm, fr, fwd, bwd, l) ==
    [t \in Steps(fr) |-> [a \in States |-> [b \in States |->
        RDiv(RMul(RMul(RMul(fr[t][a],
                            IF t = 0 THEN startprob[b] ELSE fwd[t - 1][b]),
                       bwd[t][a]),
                  tm[t][b][a]),
             l)]]]
\* _compute_sufficient_static, lines 160-165
compute_state_posts(fr, fwd, bwd, l) ==
    [t \in Steps(fr) |-> [a \in States |-> RDiv(RMul(fwd[t][a], bwd[t][a]), l)]]

\* Python's len(*args)
len(args) == IF Len(args) # 1 THEN [raised |-> "TypeError"]
                              ELSE [raised |-> "", value |-> Len(args[1])]

(* _compute_transmat.  Line 134 calls len with three arguments.  What lines *)
(* 135-141 would do with a tensor of T zero matrices is kept symbolically:  *)
(* np.dot of an (n, input_dim+1) slice and an (input_dim, 1) column does    *)
(* not align; line 140 assigns to transmat[i], the matrix of TIME i, for    *)
(* each state i, so after the loop matrix i < n holds the softmax of slice  *)
(* i at the LAST input and every later matrix is still zero.                *)
compute_transmat(ins_seq, input_dim) ==
    LET T == len(<<ins_seq, n_components, n_components>>)
    IN  IF T.raised # "" THEN [raised |-> T.raised]
        ELSE IF T.value = 0 THEN [raised |-> "", value |-> <<>>]
        ELSE IF input_dim + 1 # Len(ins_seq[1]) THEN [raised |-> "ValueError"]
        ELSE IF n_components > T.value THEN [raised |-> "IndexError"]
        ELSE [raised |-> "",
              value |-> [t \in 0..(T.value - 1) |-> [a \in States |->
                            IF t < n_components
                            THEN [slice |-> t, input |-> T.value - 1]
                            ELSE [slice |-> Unbound, input |-> Unbound]]]]

\* valid arguments: row-stochastic matrices, likelihoods in [0, 1]
Quarter == <<1, 4>>
ThreeQuarters == <<3, 4>>
MatVals == {Vec(<<Vec(<<Half, Half>>), Vec(<<Half, Half>>)>>),
            Vec(<<Vec(<<One, Zero>>), Vec(<<Zero, One>>)>>),
            Vec(<<Vec(<<Quarter, ThreeQuarters>>), Vec(<<One, Zero>>)>>)}
FrameVals == {Vec(<<One, One>>), Vec(<<Half, Quarter>>), Vec(<<Zero, Zero>>)}
PassStartprobVals == {Vec(<<Half, Half>>), Vec(<<One, Zero>>)}
InputVals == {<<0>>, <<1>>}

RECURSIVE SeqsOf(_, _)
SeqsOf(S, n) ==
    IF n = 0 THEN {<<>>} ELSE {Append(q, x) : q \in SeqsOf(S, n - 1), x \in S}

\* a model of two states after construction, and the arguments of the calls
InitPass ==
    /\ pc = "start"
    /\ err = ""
    /\ overrides = FALSE
    /\ n_components = 2
    /\ ins = <<>>
    /\ startprob \in PassStartprobVals
    /\ n_iter = 0
    /\ trans_weight_mat = "tile"
    /\ logprob = <<>>
    /\ lpr = Unbound
    /\ nit = 0
    /\ i = Unbound
    /\ k = 0
    /\ scaling_factors = <<>>
    /\ posts = {}
    /\ twm_init = None
    /\ twm_iter = None
    /\ msteps = 0
    /\ estep_done = {}
    /\ sf_read = <<>>
    /\ tested = None
    /\ \E T \in 1..MaxT :
          /\ transmat \in {Vec(q) : q \in SeqsOf(MatVals, T)}
          /\ framelogprob \in {Vec(q) : q \in SeqsOf(FrameVals, T)}
    /\ factors = <<>>
    /\ fwdlattice = <<>>
    /\ likelihood = NaN
    /\ bwdlattice = <<>>
    /\ trans_posts = <<>>
    /\ state_posts = <<>>
    /\ ret = None

fitFrame == <<overrides, n_components, ins, startprob, n_iter, trans_weight_mat,
              logprob, lpr, nit, i, k, scaling_factors, posts, twm_init, twm_iter,
              msteps, estep_done, sf_read, tested>>

\* self._compute_transmat(ins_seq), for an input sequence of any length
CallComputeTransmat ==
    /\ pc = "start"
    /\ \E T \in 1..MaxT : \E ins_seq \in SeqsOf(InputVals, T) :
          ret' = [ins_seq |-> ins_seq] @@ compute_transmat(ins_seq, Len(ins_seq[1]))
    /\ IF ret'.raised # "" THEN Raise(ret'.raised)
                           ELSE pc' = "transmat_done" /\ err' = err
    /\ UNCHANGED <<transmat, framelogprob, factors, fwdlattice, likelihood,
                   bwdlattice, trans_posts, state_posts>>
    /\ UNCHANGED fitFrame

\* lpr, fwdlattice = self._do_forward_pass(transmat, framelogprob)
CallForwardPass ==
    /\ pc = "start"
    /\ LET r == do_forward_pass(transmat, framelogprob)
       IN  /\ likelihood' = r.likelihood
           /\ fwdlattice' = r.fwdlattice
           /\ factors' = r.scaling_factors
    /\ pc' = "forward_done"
    /\ UNCHANGED <<err, transmat, framelogprob, bwdlattice, trans_posts,
                   state_posts, ret>>
    /\ UNCHANGED fitFrame

\* bwdlattice = self._do_backward_pass(transmat, framelogprob)
CallBackwardPass ==
    /\ pc = "forward_done"
    /\ bwdlattice' = do_backward_pass(transmat, framelogprob, factors)
    /\ pc' = "backward_done"
    /\ UNCHANGED <<err, transmat, framelogprob, factors, fwdlattice, likelihood,
                   trans_posts, state_posts, ret>>
    /\ UNCHANGED fitFrame

\* self._compute_sufficient_static(transmat, framelogprob, fwdlattice, bwdlattice, lpr)
CallSufficientStatic ==
    /\ pc = "backward_done"
    /\ trans_posts' = compute_trans_posts(transmat, framelogprob, fwdlattice,
                                          bwdlattice, likelihood)
    /\ state_posts' = compute_state_posts(framelogprob, fwdlattice, bwdlattice,
                                          likelihood)
    /\ pc' = "statistic_done"
    /\ UNCHANGED <<err, transmat, framelogprob, factors, fwdlattice, likelihood,
                   bwdlattice, ret>>
    /\ UNCHANGED fitFrame

NextPass ==
    \/ CallComputeTransmat \/ CallForwardPass \/ CallBackwardPass
    \/ CallSufficientStatic

SpecPass == InitPass /\ [][NextPass]_vars
\* ------------------------------------------------- claims on the passes
Returned == pc \in {"forward_done", "backward_done", "statistic_done"}
\* some row of fwdlattice sums to zero before it is rescaled
ZeroSum ==
    \E t \in Steps(framelogprob) :
        RowSum(fwd_unscaled(transmat, framelogprob, t)) = Zero

\* C5 (as claimed): a forward pass that meets a zero sum does not return (it
\* ends in an Underflow error), stores no infinite or NaN scaling factor, and
\* nothing runs after it.
C5_Claim ==
    ZeroSum => /\ ~Returned
               /\ \A t \in DOMAIN factors : IsFinite(factors[t])

\* C6 (as claimed): after forward, backward and statistics on one sequence,
\* every row of state_posts sums to 1.
C6_Claim ==
    (pc = "statistic_done" /\ ~ZeroSum)
        => \A t \in Steps(framelogprob) : RowSum(state_posts[t]) = One

\* C8 (as claimed): row t >= 1 of fwdlattice is made from row t-1 with the
\* transition matrix of step t.
RowFrom(A, prev, like) ==
    LET raw == Times(DotT(A, prev), like) IN Scaled(raw, RDiv(One, RowSum(raw)))
C8_Claim ==
    (pc = "forward_done" /\ ~ZeroSum)
        => \A t \in Steps(framelogprob) \ {0} :
              fwdlattice[t] = RowFrom(transmat[t], fwdlattice[t - 1], framelogprob[t])

\* C9 (as claimed): for T inputs the builder returns T matrices, row i of
\* matrix t being the softmax of weight slice i at the input of step t.
C9_Claim ==
    pc \in {"raised", "transmat_done"}
        => /\ ret.raised = ""
           /\ ret.value = [t \in 0..(Len(ret.ins_seq) - 1) |->
                              [a \in States |-> [slice |-> a, input |-> t]]]
====
